---- MODULE Spec2Model ----
(***************************************************************************)
(* Model of src/src/main.rs: an RTIC application with two software tasks,  *)
(* poll_tof (priority 1) and periodic (priority 5), an independent         *)
(* watchdog (IWDG) and a VL53L1 time-of-flight sensor.                     *)
(*                                                                         *)
(* Time is counted in units of 100 ms: the watchdog timeout of 500 ms is   *)
(* 5 units, periodic's delay of 100 ms is 1 unit and poll_tof's delay of   *)
(* 1 s is 10 units.  Timers are kept as the time left until they are due   *)
(* and the watchdog as the time since its last feed (now - last_fed_at),   *)
(* so that runs of any length stay inside a finite state space.            *)
(* The body of poll_tof may take any time at any of its statements, also   *)
(* forever; the body of periodic (a register write and a spawn_after) and  *)
(* the executor's own work take none.  Every driver call may return Err.   *)
(***************************************************************************)
EXTENDS Integers, Sequences, FiniteSets

VARIABLES
    initPc,        \* position of init: line 53, 60, 64 or returned / panicked
    tofStep,       \* index of the next call of setup_tof
    bringup,       \* the driver calls setup_tof has completed, in order
    wdgOn,         \* the IWDG has been started
    fedAge,        \* now - last_fed_at
    rq,            \* tasks queued for their dispatcher
    tq,            \* timer queue: [task, left] entries of spawn_after
    running,       \* stack of executing task bodies, the preempted below
    pollPc,        \* position of poll_tof's body
    periodicPc,    \* position of periodic's body
    lockHeld,      \* the shared resource delay is locked
    sensor,        \* state of the ranging device
    rmd,           \* the ranging measurement data read in this activation
    logged,        \* the distance this activation has written to the log
    pollErr,       \* the sensor call of poll_tof that returned Err
    forceReject,   \* tasks whose next spawn_after the queue is forced to reject
    rejected,      \* tasks that had a spawn_after rejected
    sincePrev,     \* time since poll_tof last started (saturating)
    slowBody,      \* some completed poll_tof body took 250 ms or longer
    winClock,      \* time since the first poll_tof start (saturating)
    pollsInWindow, \* poll_tof starts within the run of 5 s
    readsSinceClear,
    clearsSinceRead,
    readsThisCycle

vars == <<initPc, tofStep, bringup, wdgOn, fedAge, rq, tq, running, pollPc,
          periodicPc, lockHeld, sensor, rmd, logged, pollErr, forceReject,
          rejected, sincePrev, slowBody, winClock, pollsInWindow,
          readsSinceClear, clearsSinceRead, readsThisCycle>>

obs == <<sincePrev, slowBody, winClock, pollsInWindow,
         readsSinceClear, clearsSinceRead, readsThisCycle>>

----------------------------------------------------------------------------
\* Program constants (in units of 100 ms) and bounds

WDG_TIMEOUT == 5
POLL_DELAY == 10
CAPACITY == 1
MaxRange == 1

\* variant: periodic rescheduled later than the watchdog allows (C1 depends on
\* the delay)
PeriodicDelayBeyondTimeout == WDG_TIMEOUT + 1
PERIODIC_DELAY == 1

Tasks == {"poll_tof", "periodic"}
Ranges == 0..MaxRange
Statuses == {"RangeValid", "SigmaFail", "SignalFail"}
NoData == [range |-> 0 - 1, status |-> "none"]
NoLog == 0 - 1
RunLength == 5 * POLL_DELAY

Min(a, b) == IF a < b THEN a ELSE b
Max(a, b) == IF a > b THEN a ELSE b

----------------------------------------------------------------------------
\* Priorities, the priority ceiling and preemption

\* variant: periodic given the priority of poll_tof (C4 depends on the
\* priorities)
PrioAllEqual(t) == 1
Prio(t) == IF t = "periodic" THEN 5 ELSE 1

\* variant: the ceiling of delay set to the highest priority of the app (C11
\* depends on the ceiling being that of its users)
CeilingHighest == Prio("periodic")
\* delay is shared by poll_tof alone: its ceiling is poll_tof's priority
Ceiling == Prio("poll_tof")

\* the monotonic's interrupt runs at the highest priority that uses spawn_after
TimerPrio == Max(Prio("poll_tof"), Prio("periodic"))

\* variant: interrupts enabled by the panic handler (C3 depends on the halt
\* keeping them disabled)
InitMaskedUntilPanic == initPc \notin {"done", "panic"}
\* variant: interrupts enabled as soon as the watchdog is set up (C16 depends
\* on the whole of init being masked)
InitMaskedOnlyInWatchdogSetup == initPc = "setup_watchdog"
\* init runs with interrupts disabled; a panic inside it halts with them disabled
InitMasked == initPc # "done"

\* the watchdog's down-counter has run out: hardware reset
HwReset == wdgOn /\ fedAge >= WDG_TIMEOUT

Top == running[Len(running)]
CurrentPrio == IF running = <<>> THEN 0 ELSE Prio(Top)
\* variant: the lock as a critical section that masks every task (C17 depends
\* on the ceiling leaving periodic free to preempt)
EffPrioCriticalSection ==
    Max(CurrentPrio, IF lockHeld THEN Prio("periodic") ELSE 0)
EffPrio == Max(CurrentPrio, IF lockHeld THEN Ceiling ELSE 0)
\* variant: preemption also by an equal priority (C13 depends on the strict
\* comparison)
CanPreemptOrEqual(p) == ~InitMasked /\ p >= EffPrio
CanPreempt(p) == ~InitMasked /\ p > EffPrio

Outstanding(t) ==
    Cardinality({e \in tq : e.task = t}) + (IF t \in rq THEN 1 ELSE 0)
Accepts(t) == Outstanding(t) < CAPACITY

TimerDue == \E e \in tq : e.left = 0 /\ CanPreempt(TimerPrio)
\* variant: any queued task that can preempt is started, not the one of highest
\* priority (C12 depends on the order)
DispatchableAnyOrder(t) == t \in rq /\ CanPreempt(Prio(t))
Dispatchable(t) ==
    /\ t \in rq
    /\ CanPreempt(Prio(t))
    /\ \A u \in rq : Prio(u) <= Prio(t)

----------------------------------------------------------------------------
\* The ranging device, as the driver calls move it

\* variant: start_measurement issued before the configuration (C7 depends on
\* the order)
SetupTofOrderStartBeforeConfig ==
    <<"software_reset", "data_init", "static_init", "start_measurement",
      "set_user_roi", "set_measurement_timing_budget_micro_seconds",
      "set_inter_measurement_period_milli_seconds",
      "wait_measurement_data_ready">>
\* the calls of setup_tof, in program order
SetupTofOrder ==
    <<"software_reset", "data_init", "static_init", "set_user_roi",
      "set_measurement_timing_budget_micro_seconds",
      "set_inter_measurement_period_milli_seconds", "start_measurement",
      "wait_measurement_data_ready">>

EndsWith(log, tail) ==
    /\ Len(log) >= Len(tail)
    /\ SubSeq(log, Len(log) - Len(tail) + 1, Len(log)) = tail

\* the device state after driver call `call`, made in state s with the calls
\* of `done` before it
SensorAfter(call, s, done) ==
    CASE call = "software_reset" -> "Uninitialized"
      [] call = "static_init" ->
            IF s = "Uninitialized" /\ EndsWith(done, <<"software_reset", "data_init">>)
            THEN "Configured" ELSE "Faulted"
      [] call = "set_inter_measurement_period_milli_seconds" ->
            IF s = "Configured"
               /\ EndsWith(done, <<"set_user_roi",
                                   "set_measurement_timing_budget_micro_seconds">>)
            THEN "Armed" ELSE "Faulted"
      [] call = "start_measurement" ->
            IF s = "Armed" THEN "Measuring" ELSE "Faulted"
      [] call = "clear_interrupt_and_start_measurement" ->
            IF s \in {"Measuring", "DataReady"} THEN "Measuring" ELSE "Faulted"
      [] OTHER -> s

\* the device completes a measurement cycle on its own
MeasurementDone ==
    /\ ~HwReset
    /\ sensor = "Measuring"
    /\ sensor' = "DataReady"
    /\ readsThisCycle' = 0
    /\ UNCHANGED <<initPc, tofStep, bringup, wdgOn, fedAge, rq, tq, running,
                   pollPc, periodicPc, lockHeld, rmd, logged, pollErr,
                   forceReject, rejected, sincePrev, slowBody, winClock,
                   pollsInWindow, readsSinceClear, clearsSinceRead>>

----------------------------------------------------------------------------
\* init

\* line 53: setup_watchdog: start(500 ms), feed(), periodic::spawn().ok()
InitSetupWatchdog ==
    /\ initPc = "setup_watchdog"
    /\ wdgOn' = TRUE
    /\ fedAge' = 0
    /\ rq' = IF Accepts("periodic") THEN rq \cup {"periodic"} ELSE rq
    /\ initPc' = "setup_tof"
    /\ UNCHANGED <<tofStep, bringup, tq, running, pollPc, periodicPc, lockHeld,
                   sensor, rmd, logged, pollErr, forceReject, rejected, obs>>

\* line 60: one call of setup_tof returning Ok or Err; unwrap panics on Err
SetupTofCall(ok) ==
    /\ initPc = "setup_tof"
    /\ ~HwReset
    /\ LET call == SetupTofOrder[tofStep] IN
       IF ok
       THEN /\ call = "wait_measurement_data_ready" => sensor = "DataReady"
            /\ sensor' = SensorAfter(call, sensor, bringup)
            /\ bringup' = Append(bringup, call)
            /\ tofStep' = tofStep + 1
            /\ initPc' = IF tofStep = Len(SetupTofOrder)
                         THEN "spawn_poll_tof" ELSE "setup_tof"
       ELSE /\ initPc' = "panic"
            /\ UNCHANGED <<sensor, bringup, tofStep>>
    /\ UNCHANGED <<wdgOn, fedAge, rq, tq, running, pollPc, periodicPc,
                   lockHeld, rmd, logged, pollErr, forceReject, rejected, obs>>

\* lines 64-73: poll_tof::spawn().ok() and the return of init
InitSpawnPollAndReturn ==
    /\ initPc = "spawn_poll_tof"
    /\ ~HwReset
    /\ rq' = IF Accepts("poll_tof") THEN rq \cup {"poll_tof"} ELSE rq
    /\ initPc' = "done"
    /\ UNCHANGED <<tofStep, bringup, wdgOn, fedAge, tq, running, pollPc,
                   periodicPc, lockHeld, sensor, rmd, logged, pollErr,
                   forceReject, rejected, obs>>

----------------------------------------------------------------------------
\* The executor: timer queue, ready queues, dispatch

\* the monotonic's interrupt moves a due entry of the timer queue to the ready
\* queue of its task
TimerExpire(e) ==
    /\ ~HwReset
    /\ e \in tq
    /\ e.left = 0
    /\ CanPreempt(TimerPrio)
    /\ tq' = tq \ {e}
    /\ rq' = rq \cup {e.task}
    /\ UNCHANGED <<initPc, tofStep, bringup, wdgOn, fedAge, running, pollPc,
                   periodicPc, lockHeld, sensor, rmd, logged, pollErr,
                   forceReject, rejected, obs>>

\* the dispatcher starts the body of the highest-priority queued task when that
\* priority is above the running (effective) priority
Dispatch(t) ==
    /\ ~HwReset
    /\ Dispatchable(t)
    /\ rq' = rq \ {t}
    /\ running' = Append(running, t)
    /\ IF t = "poll_tof"
       THEN /\ pollPc' = "lock"
            /\ sincePrev' = 0
            /\ pollsInWindow' = IF winClock < RunLength
                                THEN pollsInWindow + 1 ELSE pollsInWindow
            /\ UNCHANGED periodicPc
       ELSE /\ periodicPc' = "feed"
            /\ UNCHANGED <<pollPc, sincePrev, pollsInWindow>>
    /\ UNCHANGED <<initPc, tofStep, bringup, wdgOn, fedAge, tq, lockHeld,
                   sensor, rmd, logged, pollErr, forceReject, rejected,
                   slowBody, winClock, readsSinceClear, clearsSinceRead,
                   readsThisCycle>>

\* t::spawn_after(d).ok(): the entry is queued, or the request is dropped
SpawnAfter(t, d) ==
    IF Accepts(t) /\ t \notin forceReject
    THEN /\ tq' = tq \cup {[task |-> t, left |-> d]}
         /\ UNCHANGED <<forceReject, rejected>>
    ELSE /\ forceReject' = forceReject \ {t}
         /\ rejected' = rejected \cup {t}
         /\ UNCHANGED tq

\* where the body of t is, and how many bodies of t have been started and
\* not returned
Pc(t) == IF t = "poll_tof" THEN pollPc ELSE periodicPc
Instances(t) == Cardinality({i \in DOMAIN running : running[i] = t})

\* a step of a task body is taken by the task on top of the stack
Runs(t) == ~HwReset /\ running # <<>> /\ Top = t
Return == running' = SubSeq(running, 1, Len(running) - 1)

----------------------------------------------------------------------------
\* periodic (priority 5)

\* variant: the body reschedules itself a second time (C18 depends on one
\* spawn_after per activation)
PeriodicFeedAlsoSpawns ==
    /\ Runs("periodic")
    /\ periodicPc = "feed"
    /\ fedAge' = 0
    /\ SpawnAfter("periodic", PERIODIC_DELAY)
    /\ periodicPc' = "spawn_after"
    /\ UNCHANGED <<initPc, tofStep, bringup, wdgOn, rq, running, pollPc,
                   lockHeld, sensor, rmd, logged, pollErr, obs>>

\* line 161
PeriodicFeed ==
    /\ Runs("periodic")
    /\ periodicPc = "feed"
    /\ fedAge' = 0
    /\ periodicPc' = "spawn_after"
    /\ UNCHANGED <<initPc, tofStep, bringup, wdgOn, rq, tq, running, pollPc,
                   lockHeld, sensor, rmd, logged, pollErr, forceReject,
                   rejected, obs>>

\* variant: periodic also spawns poll_tof when none is queued (C19 depends on
\* a task being spawned by its own body only)
PeriodicSpawnAfterRespawnsPoll ==
    /\ Runs("periodic")
    /\ periodicPc = "spawn_after"
    /\ SpawnAfter("periodic", PERIODIC_DELAY)
    /\ rq' = IF Accepts("poll_tof") THEN rq \cup {"poll_tof"} ELSE rq
    /\ periodicPc' = "return"
    /\ UNCHANGED <<initPc, tofStep, bringup, wdgOn, fedAge, running,
                   pollPc, lockHeld, sensor, rmd, logged, pollErr, obs>>

\* line 163
PeriodicSpawnAfter ==
    /\ Runs("periodic")
    /\ periodicPc = "spawn_after"
    /\ SpawnAfter("periodic", PERIODIC_DELAY)
    /\ periodicPc' = "return"
    /\ UNCHANGED <<initPc, tofStep, bringup, wdgOn, fedAge, rq, running,
                   pollPc, lockHeld, sensor, rmd, logged, pollErr, obs>>

\* line 164: the body returns to the dispatcher
PeriodicReturn ==
    /\ Runs("periodic")
    /\ periodicPc = "return"
    /\ periodicPc' = "idle"
    /\ Return
    /\ UNCHANGED <<initPc, tofStep, bringup, wdgOn, fedAge, rq, tq, pollPc,
                   lockHeld, sensor, rmd, logged, pollErr, forceReject,
                   rejected, obs>>

----------------------------------------------------------------------------
\* poll_tof (priority 1)

\* Result::unwrap with panic_halt as the panic handler: Err halts the caller
Unwrap(ok, next) == IF ok THEN next ELSE "halt"

\* line 143: ctx.shared.delay.lock
PollLock ==
    /\ Runs("poll_tof")
    /\ pollPc = "lock"
    /\ lockHeld' = TRUE
    /\ pollPc' = "wait"
    /\ UNCHANGED <<initPc, tofStep, bringup, wdgOn, fedAge, rq, tq, running,
                   periodicPc, sensor, rmd, logged, pollErr, forceReject,
                   rejected, obs>>

\* line 145: the bounded wait ends Ok when the device has data ready, Err on
\* a bus error, Err when its time runs out with the device not ready
PollWait(out) ==
    /\ Runs("poll_tof")
    /\ pollPc = "wait"
    /\ out = "ok" => sensor = "DataReady"
    /\ out = "not_ready" => sensor # "DataReady"
    /\ pollPc' = Unwrap(out = "ok", "get_ranging")
    /\ pollErr' = IF out = "ok" THEN pollErr
                  ELSE IF out = "not_ready" THEN "not_ready"
                  ELSE "wait_measurement_data_ready"
    /\ UNCHANGED <<initPc, tofStep, bringup, wdgOn, fedAge, rq, tq, running,
                   periodicPc, lockHeld, sensor, rmd, logged, forceReject,
                   rejected, obs>>

\* line 149: get_ranging_measurement_data
PollGetRanging(ok, r, st) ==
    /\ Runs("poll_tof")
    /\ pollPc = "get_ranging"
    /\ pollPc' = Unwrap(ok, "clear")
    /\ IF ok
       THEN /\ rmd' = [range |-> r, status |-> st]
            /\ readsSinceClear' = Min(readsSinceClear + 1, 2)
            /\ readsThisCycle' = Min(readsThisCycle + 1, 2)
            /\ clearsSinceRead' = 0
            /\ UNCHANGED pollErr
       ELSE /\ pollErr' = "get_ranging_measurement_data"
            /\ UNCHANGED <<rmd, readsSinceClear, readsThisCycle, clearsSinceRead>>
    /\ UNCHANGED <<initPc, tofStep, bringup, wdgOn, fedAge, rq, tq, running,
                   periodicPc, lockHeld, sensor, logged, forceReject, rejected,
                   sincePrev, slowBody, winClock, pollsInWindow>>

\* line 150: clear_interrupt_and_start_measurement
PollClear(ok) ==
    /\ Runs("poll_tof")
    /\ pollPc = "clear"
    /\ pollPc' = Unwrap(ok, "log")
    /\ IF ok
       THEN /\ sensor' = SensorAfter("clear_interrupt_and_start_measurement",
                                     sensor, bringup)
            /\ clearsSinceRead' = Min(clearsSinceRead + 1, 2)
            /\ readsSinceClear' = 0
            /\ UNCHANGED pollErr
       ELSE /\ pollErr' = "clear_interrupt_and_start_measurement"
            /\ UNCHANGED <<sensor, clearsSinceRead, readsSinceClear>>
    /\ UNCHANGED <<initPc, tofStep, bringup, wdgOn, fedAge, rq, tq, running,
                   periodicPc, lockHeld, rmd, logged, forceReject, rejected,
                   sincePrev, slowBody, winClock, pollsInWindow, readsThisCycle>>

\* line 151: the distance is written to the log
PollLog ==
    /\ Runs("poll_tof")
    /\ pollPc = "log"
    /\ logged' = rmd.range
    /\ pollPc' = "unlock"
    /\ UNCHANGED <<initPc, tofStep, bringup, wdgOn, fedAge, rq, tq, running,
                   periodicPc, lockHeld, sensor, rmd, pollErr, forceReject,
                   rejected, obs>>

\* variant: the lock kept beyond the closure (C15 depends on its release)
PollUnlockKeepsLock ==
    /\ Runs("poll_tof")
    /\ pollPc = "unlock"
    /\ rmd' = NoData
    /\ logged' = NoLog
    /\ pollPc' = "spawn_after"
    /\ UNCHANGED <<initPc, tofStep, bringup, wdgOn, fedAge, rq, tq, running,
                   periodicPc, lockHeld, sensor, pollErr, forceReject,
                   rejected, obs>>

\* line 152: the end of the lock closure, where rmd goes out of scope
PollUnlock ==
    /\ Runs("poll_tof")
    /\ pollPc = "unlock"
    /\ lockHeld' = FALSE
    /\ rmd' = NoData
    /\ logged' = NoLog
    /\ pollPc' = "spawn_after"
    /\ UNCHANGED <<initPc, tofStep, bringup, wdgOn, fedAge, rq, tq, running,
                   periodicPc, sensor, pollErr, forceReject, rejected, obs>>

\* poll_tof::spawn_after(d).ok()
PollSpawnAfterWith(d) ==
    /\ Runs("poll_tof")
    /\ pollPc = "spawn_after"
    /\ SpawnAfter("poll_tof", d)
    /\ pollPc' = "return"
    /\ UNCHANGED <<initPc, tofStep, bringup, wdgOn, fedAge, rq, running,
                   periodicPc, lockHeld, sensor, rmd, logged, pollErr, obs>>

\* line 155: the body returns to the dispatcher
PollReturn ==
    /\ Runs("poll_tof")
    /\ pollPc = "return"
    /\ pollPc' = "idle"
    /\ Return
    /\ slowBody' = (slowBody \/ 4 * sincePrev >= POLL_DELAY)
    /\ UNCHANGED <<initPc, tofStep, bringup, wdgOn, fedAge, rq, tq,
                   periodicPc, lockHeld, sensor, rmd, logged, pollErr,
                   forceReject,
                   rejected, sincePrev, winClock, pollsInWindow,
                   readsSinceClear, clearsSinceRead, readsThisCycle>>

\* variant: poll_tof rescheduled with periodic's delay (C10 depends on the
\* delay)
PollSpawnAfterTooSoon == PollSpawnAfterWith(PERIODIC_DELAY)
\* line 154: poll_tof::spawn_after(1.secs()).ok()
PollSpawnAfter == PollSpawnAfterWith(POLL_DELAY)

----------------------------------------------------------------------------
\* Time

\* work the processor takes up at once: a due timer entry or a queued task
\* that can preempt, and the straight-line body of periodic
Urgent ==
    \/ TimerDue
    \/ \E t \in Tasks : Dispatchable(t)
    \/ periodicPc # "idle"

\* 100 ms pass
Tick ==
    /\ ~HwReset
    /\ ~Urgent
    /\ fedAge' = IF wdgOn THEN fedAge + 1 ELSE fedAge
    /\ tq' = {[e EXCEPT !.left = Max(e.left - 1, 0)] : e \in tq}
    /\ sincePrev' = Min(sincePrev + 1, POLL_DELAY)
    /\ winClock' = IF pollsInWindow > 0 THEN Min(winClock + 1, RunLength)
                   ELSE winClock
    /\ UNCHANGED <<initPc, tofStep, bringup, wdgOn, rq, running, pollPc,
                   periodicPc, lockHeld, sensor, rmd, logged, pollErr,
                   forceReject, rejected, slowBody, pollsInWindow,
                   readsSinceClear, clearsSinceRead, readsThisCycle>>

\* the queue is made to reject the spawn_after that t is about to make, once
\* in a run
ForceRejectOnce(t) ==
    /\ Runs(t)
    /\ (IF t = "poll_tof" THEN pollPc ELSE periodicPc) = "spawn_after"
    /\ forceReject = {}
    /\ rejected = {}
    /\ forceReject' = {t}
    /\ UNCHANGED <<initPc, tofStep, bringup, wdgOn, fedAge, rq, tq, running,
                   pollPc, periodicPc, lockHeld, sensor, rmd, logged, pollErr,
                   rejected, obs>>

----------------------------------------------------------------------------
\* Specifications

Init ==
    /\ initPc = "setup_watchdog"
    /\ tofStep = 1
    /\ bringup = <<>>
    /\ wdgOn = FALSE
    /\ fedAge = 0
    /\ rq = {}
    /\ tq = {}
    /\ running = <<>>
    /\ pollPc = "idle"
    /\ periodicPc = "idle"
    /\ lockHeld = FALSE
    /\ sensor = "Uninitialized"
    /\ rmd = NoData
    /\ logged = NoLog
    /\ pollErr = "none"
    /\ forceReject = {}
    /\ rejected = {}
    /\ sincePrev = POLL_DELAY
    /\ slowBody = FALSE
    /\ winClock = 0
    /\ pollsInWindow = 0
    /\ readsSinceClear = 0
    /\ clearsSinceRead = 0
    /\ readsThisCycle = 0

Next ==
    \/ InitSetupWatchdog
    \/ \E ok \in BOOLEAN : SetupTofCall(ok)
    \/ InitSpawnPollAndReturn
    \/ MeasurementDone
    \/ \E e \in tq : TimerExpire(e)
    \/ \E t \in Tasks : Dispatch(t)
    \/ PeriodicFeed
    \/ PeriodicSpawnAfter
    \/ PeriodicReturn
    \/ PollLock
    \/ \E out \in {"ok", "bus_error", "not_ready"} : PollWait(out)
    \/ \E ok \in BOOLEAN, r \in Ranges, st \in Statuses : PollGetRanging(ok, r, st)
    \/ \E ok \in BOOLEAN : PollClear(ok)
    \/ PollLog
    \/ PollUnlock
    \/ PollSpawnAfter
    \/ PollReturn
    \/ Tick

Spec == Init /\ [][Next]_vars

\* the saturated-reschedule scenario: one spawn_after is forced to be rejected
\* the program with time passing and enabled steps taken
SpecFair == Init /\ [][Next]_vars /\ WF_vars(Next) /\ WF_vars(Tick)

NextSat == Next \/ \E t \in Tasks : ForceRejectOnce(t)

SpecSat == Init /\ [][NextSat]_vars

TypeOK ==
    /\ initPc \in {"setup_watchdog", "setup_tof", "spawn_poll_tof", "done", "panic"}
    /\ tofStep \in 1..(Len(SetupTofOrder) + 1)
    /\ fedAge \in 0..WDG_TIMEOUT
    /\ rq \subseteq Tasks
    /\ tq \subseteq [task : Tasks, left : 0..POLL_DELAY]
    /\ pollPc \in {"idle", "lock", "wait", "get_ranging", "clear", "log",
                   "unlock", "spawn_after", "return", "halt"}
    /\ periodicPc \in {"idle", "feed", "spawn_after", "return"}
    /\ sensor \in {"Uninitialized", "Configured", "Armed", "Measuring",
                   "DataReady", "Faulted"}
    /\ sincePrev \in 0..POLL_DELAY
    /\ winClock \in 0..RunLength

----------------------------------------------------------------------------
\* Properties

PeriodicDue ==
    \/ "periodic" \in rq
    \/ \E e \in tq : e.task = "periodic" /\ e.left = 0

\* C1: watchdog liveness: once init has returned, now - last_fed_at stays
\* below the timeout of 500 ms in every reachable state, whatever poll_tof
\* does and however long its body takes: the hardware reset never fires.
C1_WatchdogLiveness ==
    initPc = "done" => (fedAge < WDG_TIMEOUT /\ ~HwReset)

\* a long run: poll_tof has halted inside its lock section and periodic, having
\* preempted it, has just fed the watchdog
C1_Witness ==
    /\ initPc = "done"
    /\ winClock = RunLength
    /\ running = <<"poll_tof", "periodic">>
    /\ pollPc = "halt"
    /\ lockHeld
    /\ periodicPc = "spawn_after"
    /\ fedAge = 0

\* C2: a sensor call of poll_tof that returns Err is not fatal: poll_tof is
\* not stopped by it, it goes on to reschedule itself.
C2_SensorFailureNonFatal ==
    pollErr # "none" => pollPc # "halt"

\* C3: a failing step of setup_tof aborts startup: init never returns, no
\* task is ever queued by a timer, started or run, the watchdog is never fed
\* after the feed of setup_watchdog (only time passes, and the device may
\* finish a measurement), and the hardware reset fires when 500 ms have
\* passed since that feed.
C3_FatalConfigError ==
    /\ [](initPc = "panic" =>
            /\ running = <<>>
            /\ pollPc = "idle"
            /\ periodicPc = "idle"
            /\ "poll_tof" \notin rq
            /\ tq = {}
            /\ wdgOn)
    /\ [][initPc = "panic" =>
            /\ initPc' = "panic"
            /\ fedAge' \in {fedAge, fedAge + 1}
            /\ fedAge' = fedAge => sensor' # sensor
            /\ HwReset' = (fedAge' = WDG_TIMEOUT)]_vars
    /\ [][(initPc # "done" /\ wdgOn) => fedAge' >= fedAge]_vars

\* setup_tof has failed and the watchdog has reset the device
C3_Witness ==
    /\ initPc = "panic"
    /\ Len(bringup) = 3
    /\ HwReset

\* C4: watchdog dominance: after init, no time passes while an activation of
\* periodic is due, wherever poll_tof is in its body and whether or not it
\* holds the lock: periodic preempts it at once.
C4_WatchdogDominance ==
    [][(initPc = "done" /\ PeriodicDue) => fedAge' # fedAge + 1]_vars

\* periodic has preempted poll_tof inside the lock section, between the read
\* and the clear
C4_Witness ==
    /\ running = <<"poll_tof", "periodic">>
    /\ pollPc = "clear"
    /\ lockHeld
    /\ periodicPc = "feed"
    /\ fedAge = PERIODIC_DELAY

\* C5: when the wait of poll_tof ends with the device not ready, poll_tof
\* leaves the sensor as it is and goes on to reschedule itself.
C5_NotReadyReschedules ==
    [][(pollErr = "none" /\ pollErr' = "not_ready") =>
            (sensor' = sensor /\ pollPc' = "spawn_after")]_vars

\* C6: after one rejected spawn_after of poll_tof, poll_tof is still on its
\* way to a next activation: it is running or queued.
C6_RecoversAfterRejection ==
    ("poll_tof" \in rejected /\ ~HwReset) =>
        (pollPc # "idle" \/ Outstanding("poll_tof") > 0)

\* C7: bring-up ordering: the calls setup_tof has completed are always a
\* prefix of reset, data init, static init, ROI, timing budget,
\* inter-measurement period, start, wait; the device is measuring from the
\* start call on and never before, and is never faulted; init goes on to
\* spawn poll_tof only with the whole sequence done, and poll_tof is neither
\* queued nor running before init has returned.
C7_BringUpOrdering ==
    LET order == <<"software_reset", "data_init", "static_init", "set_user_roi",
                   "set_measurement_timing_budget_micro_seconds",
                   "set_inter_measurement_period_milli_seconds",
                   "start_measurement", "wait_measurement_data_ready">>
    IN  /\ \E n \in 0..Len(order) : bringup = SubSeq(order, 1, n)
        /\ sensor # "Faulted"
        /\ Len(bringup) < 3 => sensor = "Uninitialized"
        /\ Len(bringup) \in 3..5 => sensor = "Configured"
        /\ Len(bringup) = 6 => sensor = "Armed"
        /\ Len(bringup) >= 7 => sensor \in {"Measuring", "DataReady"}
        /\ initPc \in {"spawn_poll_tof", "done"} => bringup = order
        /\ (pollPc # "idle" \/ "poll_tof" \in rq \/ running # <<>>) =>
                (initPc = "done" /\ bringup = order)

\* start_measurement has just succeeded: the device is measuring
C7_Witness ==
    /\ initPc = "setup_tof"
    /\ Len(bringup) = 7
    /\ bringup[7] = "start_measurement"
    /\ sensor = "Measuring"

\* poll_tof has found data ready in this activation
FoundReady ==
    \/ pollPc \in {"get_ranging", "clear", "log", "unlock", "spawn_after",
                  "return"}
    \/ pollPc = "halt" /\ pollErr \in {"get_ranging_measurement_data",
                                     "clear_interrupt_and_start_measurement"}

\* C8: an activation of poll_tof that has found data ready and is past the
\* read and the clear has read the result and then cleared and re-armed the
\* device, once, all of it under the lock.
C8_ReadyReturnsToMeasuring ==
    (FoundReady /\ pollPc \notin {"get_ranging", "clear"}) =>
        /\ pollPc \in {"log", "unlock"} => rmd # NoData
        /\ lockHeld = (pollPc \in {"log", "unlock", "halt"})
        /\ readsSinceClear = 0
        /\ clearsSinceRead = 1
        /\ sensor \in {"Measuring", "DataReady"}

\* C9: status gating: a distance is written out as a measurement only when
\* the status of the result is the range-valid code.
C9_StatusGating ==
    logged # NoLog => rmd.status = "RangeValid"

\* C10: poll cadence: poll_tof starts at least 1 s after its previous start;
\* a run of 5 s from the first start holds at most 5 starts, and exactly 5
\* when every body took under 250 ms; a step of poll_tof changes the device
\* only by the clear that follows a read; no measurement cycle is read twice
\* and there is exactly one clear between two reads.
C10_PollCadence ==
    /\ [][(pollPc = "idle" /\ pollPc' # "idle") => sincePrev >= POLL_DELAY]_vars
    /\ [](pollsInWindow <= 5)
    /\ []((/\ winClock = RunLength
           /\ ~slowBody
           /\ pollPc # "idle" => 4 * sincePrev < POLL_DELAY)
          => pollsInWindow = 5)
    /\ [][(pollPc' # pollPc /\ sensor' # sensor) =>
            (pollPc = "clear" /\ rmd # NoData)]_vars
    /\ [](readsThisCycle <= 1 /\ readsSinceClear <= 1 /\ clearsSinceRead <= 1)
    /\ [][(readsSinceClear' = 1 /\ readsSinceClear = 0 /\ pollsInWindow > 1) =>
            clearsSinceRead = 1]_vars

\* the run of 5 s is over with 5 polls in it, the fifth having read a value
C10_Witness ==
    /\ winClock = RunLength
    /\ ~slowBody
    /\ pollsInWindow = 5
    /\ pollPc = "idle"
    /\ sensor = "Measuring"
    /\ readsThisCycle = 1

\* the task whose body the step starts, "" when the step starts none
Started ==
    IF Len(running') = Len(running) + 1 THEN running'[Len(running')] ELSE ""

\* C11: priority ceiling: delay has at most one holder, and the holder is
\* poll_tof inside its lock section; while it is held the only body that
\* starts is that of periodic (priority 5, above the ceiling 1), never one of
\* priority 1; and periodic is not kept waiting by the lock: no time passes
\* while periodic is due and the lock is held.
C11_PriorityCeiling ==
    /\ [](lockHeld =>
            /\ Cardinality({i \in DOMAIN running : running[i] = "poll_tof"}) = 1
            /\ pollPc \in {"wait", "get_ranging", "clear", "log", "unlock", "halt"})
    /\ [][(lockHeld /\ Started # "") => (Started = "periodic" /\ Prio(Started) > 1)]_vars
    /\ [][(lockHeld /\ PeriodicDue) => fedAge' # fedAge + 1]_vars

\* periodic runs over poll_tof, which holds the lock and waits for the device
C11_Witness ==
    /\ lockHeld
    /\ pollPc = "wait"
    /\ sensor = "Measuring"
    /\ running = <<"poll_tof", "periodic">>
    /\ periodicPc = "return"

\* C12: dispatch order: a body that starts has the highest priority of the
\* queued tasks; init returns with periodic and poll_tof both queued and
\* nothing running, and poll_tof never starts while periodic is queued or
\* running: the first body after init is periodic's and poll_tof starts
\* only when it has returned.
C12_DispatchOrder ==
    /\ [][(initPc # "done" /\ initPc' = "done") =>
            (rq' = {"periodic", "poll_tof"} /\ running' = <<>>)]_vars
    /\ [][Started # "" => \A u \in rq : Prio(u) <= Prio(Started)]_vars
    /\ [][Started = "poll_tof" =>
            ("periodic" \notin rq /\ periodicPc = "idle")]_vars

\* right after init: periodic is the first body to run, poll_tof still queued
C12_Witness ==
    /\ initPc = "done"
    /\ running = <<"periodic">>
    /\ periodicPc = "feed"
    /\ rq = {"poll_tof"}
    /\ pollsInWindow = 0
    /\ fedAge > 0

\* C13: preemption rule: the stack of running bodies is strictly increasing
\* in priority, so poll_tof never runs over periodic and no task over
\* itself; only the body on top of the stack takes steps, and the stack
\* changes only by a body starting on top or the top body returning.
C13_PreemptionRule ==
    /\ [](running \in {<<>>, <<"poll_tof">>, <<"periodic">>,
                       <<"poll_tof", "periodic">>})
    /\ [][(pollPc' # pollPc /\ pollPc # "idle") =>
            (running # <<>> /\ Top = "poll_tof")]_vars
    /\ [][(periodicPc' # periodicPc /\ periodicPc # "idle") =>
            (running # <<>> /\ Top = "periodic")]_vars
    /\ [][running' # running =>
            \/ Started # "" /\ SubSeq(running', 1, Len(running)) = running
            \/ /\ running # <<>>
               /\ running' = SubSeq(running, 1, Len(running) - 1)
               /\ (IF Top = "poll_tof" THEN pollPc ELSE periodicPc) = "return"]_vars

\* poll_tof is due again while its previous body has not returned yet: it
\* stays queued
C13_Witness ==
    /\ running = <<"poll_tof">>
    /\ pollPc = "return"
    /\ "poll_tof" \in rq

\* C14: perpetual rescheduling: the spawn_after of a body queues the task with
\* next_due = now + period (periodic 100 ms, poll_tof 1 s); once init has
\* returned each task is at every moment in its body or queued, and each is
\* activated again and again.
C14_PerpetualRescheduling ==
    /\ [][(periodicPc = "spawn_after" /\ periodicPc' = "return") =>
            [task |-> "periodic", left |-> PERIODIC_DELAY] \in tq']_vars
    /\ [][(pollPc = "spawn_after" /\ pollPc' = "return") =>
            [task |-> "poll_tof", left |-> POLL_DELAY] \in tq']_vars
    /\ [](initPc = "done" =>
            /\ periodicPc # "idle" \/ Outstanding("periodic") > 0
            /\ pollPc # "idle" \/ Outstanding("poll_tof") > 0)
    /\ (initPc = "done") ~> (periodicPc = "feed")
    /\ (initPc = "done") ~> (pollPc = "lock")

\* C15: no resource held across the reschedule boundary: the lock on delay is
\* free whenever poll_tof is outside lines 143-152, in particular when it
\* calls spawn_after and when it is not running; it is taken and released
\* by steps of poll_tof only, periodic never holds it.
C15_NoLockAcrossReschedule ==
    /\ [](pollPc \in {"idle", "lock", "spawn_after", "return"} => ~lockHeld)
    /\ [](lockHeld => (running # <<>> /\ running[1] = "poll_tof"))
    /\ [][(pollPc = "spawn_after" /\ pollPc' = "return") =>
            (~lockHeld /\ ~lockHeld')]_vars
    /\ [][lockHeld' # lockHeld =>
            /\ running # <<>>
            /\ Top = "poll_tof"
            /\ periodicPc' = periodicPc]_vars

\* poll_tof has rescheduled itself and not returned yet; the lock is free
C15_Witness ==
    /\ running = <<"poll_tof">>
    /\ pollPc = "return"
    /\ ~lockHeld
    /\ [task |-> "poll_tof", left |-> POLL_DELAY] \in tq

\* C16: watchdog and bring-up: the first step of init starts the watchdog and
\* feeds it, before any call of the bring-up; until init returns no task
\* body runs (periodic stays queued) and the watchdog is not fed again, so
\* when the bring-up takes 500 ms the reset fires inside init with no task
\* run and no bring-up step failed.
C16_BringUpUnderWatchdog ==
    /\ [][initPc = "setup_watchdog" =>
            /\ initPc' = "setup_tof"
            /\ wdgOn' /\ fedAge' = 0
            /\ bringup' = <<>> /\ sensor' = sensor]_vars
    /\ [](initPc \in {"setup_tof", "spawn_poll_tof"} =>
            /\ running = <<>>
            /\ "periodic" \in rq
            /\ periodicPc = "idle" /\ pollPc = "idle"
            /\ pollsInWindow = 0)
    /\ [][(initPc \in {"setup_tof", "spawn_poll_tof"}) =>
            (fedAge' = fedAge \/ fedAge' = fedAge + 1)]_vars
    /\ [][(initPc \in {"setup_tof", "spawn_poll_tof"}
             /\ fedAge = WDG_TIMEOUT - 1 /\ fedAge' # fedAge) =>
            (HwReset' /\ initPc' = initPc /\ running' = <<>>)]_vars

\* the reset fires before the last call of the bring-up, none having failed
C16_Witness ==
    /\ initPc = "setup_tof"
    /\ tofStep = Len(SetupTofOrder)
    /\ Len(bringup) = Len(SetupTofOrder) - 1
    /\ HwReset
    /\ running = <<>>
    /\ rq = {"periodic"}

\* C17: panic in poll_tof: a halted poll_tof stays halted, at the bottom of
\* the stack and inside the lock section, with no instance of it queued;
\* periodic keeps preempting it and feeding: the watchdog never gets older
\* than one period and the reset never fires.
C17_PanicInPollTof ==
    /\ [](pollPc = "halt" =>
            /\ pollErr # "none"
            /\ lockHeld
            /\ running # <<>> /\ running[1] = "poll_tof"
            /\ Outstanding("poll_tof") = 0
            /\ fedAge <= PERIODIC_DELAY
            /\ ~HwReset)
    /\ [][pollPc = "halt" => pollPc' = "halt"]_vars
    /\ [][(pollPc = "halt" /\ PeriodicDue) => fedAge' # fedAge + 1]_vars

\* long after the panic periodic has just been started over the halted poll_tof
C17_Witness ==
    /\ pollPc = "halt"
    /\ pollErr = "get_ranging_measurement_data"
    /\ winClock = RunLength
    /\ running = <<"poll_tof", "periodic">>
    /\ periodicPc = "feed"
    /\ fedAge = PERIODIC_DELAY

\* C18 as stated: each task has at most one instance, counting the running
\* one with those queued for dispatch and those in the timer queue, and no
\* spawn or spawn_after is rejected.
C18_AtMostOneInstance ==
    /\ [](\A t \in Tasks : Instances(t) + Outstanding(t) <= 1)
    /\ [](rejected = {})

\* C18: each task has at most one instance queued (for dispatch or in the
\* timer queue) and at most one running; the two exist together only between
\* the spawn_after of the running body and its return.  The queue slot is
\* free when the body calls spawn_after: the capacity of one is never
\* exceeded, every spawn_after of a body queues the task, init queues both
\* tasks and no request is rejected.
C18_AtMostOneQueued ==
    /\ [](\A t \in Tasks :
            /\ Outstanding(t) <= CAPACITY
            /\ Instances(t) <= 1
            /\ (Instances(t) = 1 /\ Outstanding(t) = 1) => Pc(t) = "return")
    /\ [](rejected = {})
    /\ [][\A t \in Tasks : (Pc(t) = "spawn_after" /\ Pc(t)' = "return") =>
            (Outstanding(t) = 0 /\ Outstanding(t)' = 1)]_vars
    /\ [][(initPc = "setup_watchdog" /\ initPc' # initPc) =>
            "periodic" \in rq']_vars
    /\ [][(initPc = "spawn_poll_tof" /\ initPc' # initPc) =>
            "poll_tof" \in rq']_vars

\* both bodies have rescheduled themselves and not returned yet
C18_Witness ==
    /\ running = <<"poll_tof", "periodic">>
    /\ pollPc = "return"
    /\ periodicPc = "return"
    /\ Outstanding("poll_tof") = 1
    /\ Outstanding("periodic") = 1
    /\ rejected = {}

\* C19: a broken chain stays broken: the number of queued instances of a task
\* grows only in init and at the spawn_after of the task's own body, so a
\* task whose spawn_after was rejected has none queued and its body is never
\* started again; once periodic's was rejected the watchdog is not fed any
\* more and its age only grows, up to the timeout.
C19_BrokenChain ==
    /\ [][\A t \in Tasks : Outstanding(t)' > Outstanding(t) =>
            \/ initPc # "done"
            \/ (running # <<>> /\ Top = t /\ Pc(t) = "spawn_after")]_vars
    /\ [](\A t \in rejected :
            /\ Outstanding(t) = 0
            /\ Pc(t) \in {"return", "idle"})
    /\ [][Started \notin rejected]_vars
    /\ [][("periodic" \in rejected) => fedAge' >= fedAge]_vars
    /\ [](fedAge <= WDG_TIMEOUT)

\* periodic's spawn_after was rejected and the watchdog has reset the device
C19_Witness ==
    /\ "periodic" \in rejected
    /\ periodicPc = "idle"
    /\ Outstanding("periodic") = 0
    /\ initPc = "done"
    /\ HwReset

====
